---- MODULE Spec2Model ----
(***************************************************************************)
(* Model of the follow-then-unfollow controller of src/main.py             *)
(* (follow_then_unfollow_loop), its list loader and its three profile      *)
(* primitives.                                                             *)
(*                                                                         *)
(* Strings are sequences of one-character strings.  The log file is the    *)
(* sequence of the entries appended to it; the "ts" field that log_action  *)
(* adds is left out (no claim reads it) and a failing write of the log     *)
(* file is not modelled.  `calls` is a history variable: the primitive     *)
(* invocations made so far, with their results.                            *)
(*                                                                         *)
(* browserOpen / contextOpen are TRUE from the launch / new_context call   *)
(* until the controller's own browser.close() / context.close() call.      *)
(*                                                                         *)
(* An interrupt is delivered at an await of the controller (one pc value   *)
(* per await); when the await is inside a primitive, the interrupted       *)
(* invocation is recorded in `calls` with the result "interrupted".        *)
(*                                                                         *)
(* PrimSpec applies one primitive to one behaviour of the profile page     *)
(* (prim, page, result).  ScraperSpec is the extraction loop of            *)
(* scrape_followers of src/instagram_scraper.py; a follower is a number,   *)
(* numbered in the order of the followers dialog.                          *)
(***************************************************************************)
EXTENDS Integers, Sequences, FiniteSets, TLC

VARIABLES pc, exitKind, browserOpen, contextOpen, data, batch_size,
          usernames, idx, log, followed_set, passTodo, uname, passes, calls,
          prim, page, result,
          spc, max_followers, followers, follower_set, prev_count,
          unchanged, attempt

(* one call of a profile primitive: which one, what the page does, result *)
primVars == <<prim, page, result>>

(* scrape_followers of src/instagram_scraper.py *)
scrVars == <<spc, max_followers, followers, follower_set, prev_count,
             unchanged, attempt>>

ctlVars == <<pc, exitKind, browserOpen, contextOpen, data, batch_size,
             usernames, idx, log, followed_set, passTodo, uname, passes,
             calls>>

vars == <<ctlVars, primVars, scrVars>>

(* ----------------------------- bounds ---------------------------------- *)
MaxChars == 4      \* characters in all the strings of one loader input
MaxListLen == 2    \* items of one loader input
MaxTargets == 2    \* usernames of one controller run
MaxChecks == 3     \* follow-back checks of one controller run
MaxUsers == 3      \* followers that the followers dialog can show
MaxLimit == 2      \* largest value of --max

(* ----------------------------- strings --------------------------------- *)
Alphabet == {" ", "@", "a"}

RECURSIVE lstrip(_, _)
lstrip(s, chars) ==
    IF s # <<>> /\ Head(s) \in chars THEN lstrip(Tail(s), chars) ELSE s

RECURSIVE rstrip(_, _)
rstrip(s, chars) ==
    IF s # <<>> /\ s[Len(s)] \in chars
    THEN rstrip(SubSeq(s, 1, Len(s) - 1), chars) ELSE s

Whitespace == {" "}

strip(s) == rstrip(lstrip(s, Whitespace), Whitespace)

(* mutation: only one leading "@" is removed *)
lstrip_at_Once(s) == IF s # <<>> /\ Head(s) = "@" THEN Tail(s) ELSE s

lstrip_at(s) == lstrip(s, {"@"})

Normalize(s) == lstrip_at(strip(s))

(* ----------------------------- list loader ----------------------------- *)
StrItem(s) == [kind |-> "str", field |-> "str", val |-> s]
DictItem(s) == [kind |-> "dict", field |-> "str", val |-> s]
DictNoKey == [kind |-> "dict", field |-> "absent", val |-> <<>>]
DictNonStr == [kind |-> "dict", field |-> "nonstr", val |-> <<>>]
OtherItem == [kind |-> "other", field |-> "absent", val |-> <<>>]

ListData(items) == [shape |-> "list", items |-> items]
NonListData == [shape |-> "nonlist", items |-> <<>>]
InvalidData == [shape |-> "invalid", items |-> <<>>]
MissingData == [shape |-> "missing", items |-> <<>>]

RECURSIVE SelectSeq2(_, _)
SelectSeq2(s, keep) ==
    IF s = <<>> THEN <<>>
    ELSE IF Head(s) \in keep THEN <<Head(s)>> \o SelectSeq2(Tail(s), keep)
         ELSE SelectSeq2(Tail(s), keep)

Range(s) == {s[i] : i \in 1..Len(s)}

NonEmpty(us) == SelectSeq2(us, Range(us) \ {<<>>})

RECURSIVE dedupe(_)
dedupe(us) ==
    IF us = <<>> THEN <<>>
    ELSE LET r == dedupe(SubSeq(us, 1, Len(us) - 1))
             x == us[Len(us)]
         IN IF x \in Range(r) THEN r ELSE Append(r, x)

RECURSIVE StringsBranch(_)
StringsBranch(items) ==
    IF items = <<>> THEN <<>>
    ELSE LET u == Head(items).val
         IN IF strip(u) # <<>>
            THEN <<Normalize(u)>> \o StringsBranch(Tail(items))
            ELSE StringsBranch(Tail(items))

RECURSIVE DictsBranchExtract(_)
DictsBranchExtract(items) ==
    IF items = <<>> THEN <<>>
    ELSE LET obj == Head(items)
         IN IF obj.field = "str"
            THEN <<Normalize(obj.val)>> \o DictsBranchExtract(Tail(items))
            ELSE DictsBranchExtract(Tail(items))

DictsBranch(items) == NonEmpty(DictsBranchExtract(items))

RECURSIVE MixedBranchExtract(_)
MixedBranchExtract(items) ==
    IF items = <<>> THEN <<>>
    ELSE LET it == Head(items)
         IN IF it.kind = "str"
            THEN <<Normalize(it.val)>> \o MixedBranchExtract(Tail(items))
            ELSE IF it.kind = "dict" /\ it.field = "str"
                 THEN <<Normalize(it.val)>> \o MixedBranchExtract(Tail(items))
                 ELSE MixedBranchExtract(Tail(items))

MixedBranch(items) == dedupe(NonEmpty(MixedBranchExtract(items)))

AllKind(items, k) == \A i \in 1..Len(items) : items[i].kind = k

LoadResult(st, us) == [status |-> st, usernames |-> us]

(* mutation: the empty-list exit is missing *)
LoadList_NoEmptyExit(d) ==
    IF d.shape = "missing" THEN LoadResult("not_found", <<>>)
    ELSE IF d.shape = "invalid" THEN LoadResult("parse_error", <<>>)
    ELSE IF d.shape # "list" THEN LoadResult("not_array", <<>>)
    ELSE IF AllKind(d.items, "str")
         THEN LoadResult("ok", dedupe(StringsBranch(d.items)))
    ELSE IF AllKind(d.items, "dict")
         THEN IF Len(DictsBranch(d.items)) = 0
              THEN LoadResult("no_usernames", <<>>)
              ELSE LoadResult("ok", dedupe(DictsBranch(d.items)))
    ELSE IF Len(MixedBranch(d.items)) = 0
         THEN LoadResult("no_usernames", <<>>)
         ELSE LoadResult("ok", dedupe(MixedBranch(d.items)))

LoadList(d) ==
    IF d.shape = "missing" THEN LoadResult("not_found", <<>>)
    ELSE IF d.shape = "invalid" THEN LoadResult("parse_error", <<>>)
    ELSE IF d.shape # "list" THEN LoadResult("not_array", <<>>)
    ELSE IF Len(d.items) = 0 THEN LoadResult("empty", <<>>)
    ELSE IF AllKind(d.items, "str")
         THEN LoadResult("ok", dedupe(StringsBranch(d.items)))
    ELSE IF AllKind(d.items, "dict")
         THEN IF Len(DictsBranch(d.items)) = 0
              THEN LoadResult("no_usernames", <<>>)
              ELSE LoadResult("ok", dedupe(DictsBranch(d.items)))
    ELSE IF Len(MixedBranch(d.items)) = 0
         THEN LoadResult("no_usernames", <<>>)
         ELSE LoadResult("ok", dedupe(MixedBranch(d.items)))

(* ----------------------------- inputs ---------------------------------- *)
ItemKinds == {"str", "dict", "dict_nokey", "dict_nonstr", "other"}

MakeItem(kind, s) ==
    IF kind = "str" THEN StrItem(s)
    ELSE IF kind = "dict" THEN DictItem(s)
    ELSE IF kind = "dict_nokey" THEN DictNoKey
    ELSE IF kind = "dict_nonstr" THEN DictNonStr
    ELSE OtherItem

RECURSIVE SumTo(_, _)
SumTo(lens, i) == IF i = 0 THEN 0 ELSE lens[i] + SumTo(lens, i - 1)

(* the list whose i-th item has kind kinds[i] and, as its string, the next *)
(* lens[i] characters of text                                              *)
MakeItems(kinds, lens, text) ==
    [i \in 1..Len(kinds) |->
        MakeItem(kinds[i],
                 SubSeq(text, SumTo(lens, i - 1) + 1, SumTo(lens, i)))]

(* the loader inputs: lists of at most MaxListLen items whose strings hold *)
(* at most MaxChars characters together                                    *)
IsLoaderInput(d) ==
    \/ d \in {NonListData, InvalidData, MissingData}
    \/ \E n \in 0..MaxListLen :
          \E lens \in [1..n -> 0..MaxChars] :
             /\ SumTo(lens, n) <= MaxChars
             /\ \E kinds \in [1..n -> ItemKinds] :
                   /\ \A i \in 1..n : kinds[i] \notin {"str", "dict"} => lens[i] = 0
                   /\ \E text \in [1..SumTo(lens, n) -> Alphabet] :
                         d = ListData(MakeItems(kinds, lens, text))

Letters(k) == [i \in 1..k |-> "a"]

(* n items with n different usernames: strings and records in turn *)
TargetItems(n) ==
    [i \in 1..n |-> IF i % 2 = 1 THEN StrItem(Letters(i))
                    ELSE DictItem(<<"@">> \o Letters(i))]

ControllerData ==
    {ListData(TargetItems(n)) : n \in 0..MaxTargets}
        \cup {ListData(<<DictItem(<<"@", "a">>)>>),
              ListData(<<DictNoKey>>), ListData(<<DictNoKey, DictItem(<<"@">>)>>),
              ListData(<<OtherItem>>), ListData(<<StrItem(<<" ">>)>>),
              NonListData, InvalidData, MissingData}

BatchSizes == {0, 2}

(* ----------------------------- primitives ------------------------------ *)
GotoOutcomes == {"ok", "error"}
HeaderOutcomes == {"ok", "timeout", "error"}

FollowEnv ==
    [goto : GotoOutcomes, header : HeaderOutcomes,
     button : {"follow_visible", "none", "error"}]

follow_profile(env) ==
    IF env.goto = "error" THEN "false"
    ELSE IF env.header = "timeout" THEN "false"
    ELSE IF env.header = "error" THEN "raise"
    ELSE IF env.button = "follow_visible" THEN "true"
    ELSE "false"

CheckEnv ==
    [goto : GotoOutcomes, header : HeaderOutcomes,
     indicator : {"present", "absent", "error"}]

is_user_following_me(env) ==
    IF env.goto = "error" THEN "false"
    ELSE IF env.header = "timeout" THEN "false"
    ELSE IF env.header = "error" THEN "raise"
    ELSE IF env.indicator = "present" THEN "true"
    ELSE "false"

UnfollowEnv ==
    [goto : GotoOutcomes, header : HeaderOutcomes,
     button : {"visible", "none", "error"},
     confirm : {"visible", "timeout", "invisible", "error"}]

(* the visible "Following"/"Requested" control was clicked (line 137) *)
unfollow_activated(env) ==
    env.goto = "ok" /\ env.header = "ok" /\ env.button = "visible"

unfollow_profile(env) ==
    IF env.goto = "error" THEN "false"
    ELSE IF env.header = "timeout" THEN "false"
    ELSE IF env.header = "error" THEN "raise"
    ELSE IF env.button # "visible" THEN "false"
    ELSE IF env.confirm \in {"visible", "timeout"} THEN "true"
    ELSE "false"

(* ----------------------------- logger ---------------------------------- *)
log_action(logfile, entry) == Append(logfile, entry)

FollowAttemptEntry(u, performed, i, total) ==
    [action |-> "follow_attempt", username |-> u, performed |-> performed,
     index |-> i, total |-> total]

UnfollowEntry(u, unfollowed) ==
    [action |-> "unfollow_on_followback", username |-> u,
     unfollowed |-> unfollowed]

CheckFollowbackEntry(u) ==
    [action |-> "check_followback", username |-> u, follows_me |-> FALSE]

(* mutation: the error entry is written without the user *)
ErrorEntry_NoUser(u) ==
    [action |-> "error", username |-> <<>>, error |-> "exception"]

ErrorEntry(u) ==
    [action |-> "error", username |-> u, error |-> "exception"]

Call(op, u, r) == [op |-> op, user |-> u, result |-> r, pass |-> passes]

(* ----------------------------- controller ------------------------------ *)
NoUser == <<>>

NoPage == [goto |-> "none"]

StateFileOutcomes == {"absent", "loaded", "load_failed"}

SetupPcs == {"start", "new_context", "state_load_failed", "check_login",
             "login_flow", "recreate", "recheck"}
FollowPcs == {"follow", "follow_sleep", "batch_pause"}
MonPcs == {"mon_top", "mon_check", "mon_unfollow", "mon_sleep", "pass_sleep"}

(* mutation: the loop stops one entry early *)
LoopDone_OffByOne(i, us) == i >= Len(us)

LoopDone(i, us) == i > Len(us)

(* mutation: the set is rebuilt from the target list instead of discard *)
AfterUnfollow_Rebuild(fs, u, unfollowed) ==
    IF unfollowed THEN Range(usernames) \ {u} ELSE fs

(* mutation: the discard is missing *)
AfterUnfollow_NoDiscard(fs, u, unfollowed) == fs

(* mutation: clear() instead of discard(uname) *)
AfterUnfollow_Clear(fs, u, unfollowed) == IF unfollowed THEN {} ELSE fs

(* mutation: the user is discarded whatever unfollow returned *)
AfterUnfollow_Always(fs, u, unfollowed) == fs \ {u}

AfterUnfollow(fs, u, unfollowed) == IF unfollowed THEN fs \ {u} ELSE fs

PassSnapshot(fs) == fs

(* mutation: only the users whose follow was performed are monitored *)
InitialFollowedSet_OnlyPerformed(us) ==
    {us[i] : i \in {j \in 1..Len(us) :
                       \E k \in 1..Len(calls) :
                          /\ calls[k].op = "follow"
                          /\ calls[k].user = us[j]
                          /\ calls[k].result = "true"}}

InitialFollowedSet(us) == Range(us)

(* mutation: the loop ends while one user is still monitored *)
NoneLeft_AtMostOne(fs) == Cardinality(fs) <= 1

NoneLeft(fs) == fs = {}

(* mutation: the unfollow is tried whatever the check returned *)
ShouldUnfollow_Always(follows_me) == follows_me # "raise"

ShouldUnfollow(follows_me) == follows_me = "true"

CloseAndReturn(kind) ==
    /\ pc' = "terminated"
    /\ exitKind' = kind
    /\ contextOpen' = FALSE
    /\ browserOpen' = FALSE

Propagate(kind) ==
    /\ pc' = "terminated"
    /\ exitKind' = kind
    /\ UNCHANGED <<contextOpen, browserOpen>>

(* the other two programs are not running *)
PrimIdle == prim = "none" /\ page = NoPage /\ result = "none"

ScraperIdle ==
    /\ spc = "idle"
    /\ max_followers = 0
    /\ followers = <<>>
    /\ follower_set = {}
    /\ prev_count = -1
    /\ unchanged = 0
    /\ attempt = 0

ControllerIdle ==
    /\ pc = "idle"
    /\ exitKind = "none"
    /\ browserOpen = FALSE
    /\ contextOpen = FALSE
    /\ data = MissingData
    /\ batch_size = 1
    /\ usernames = <<>>
    /\ idx = 0
    /\ log = <<>>
    /\ followed_set = {}
    /\ passTodo = {}
    /\ uname = NoUser
    /\ passes = 0
    /\ calls = <<>>

Init ==
    /\ pc = "start"
    /\ exitKind = "none"
    /\ browserOpen = FALSE
    /\ contextOpen = FALSE
    /\ data \in ControllerData
    /\ batch_size \in BatchSizes
    /\ usernames = <<>>
    /\ idx = 0
    /\ log = <<>>
    /\ followed_set = {}
    /\ passTodo = {}
    /\ uname = NoUser
    /\ passes = 0
    /\ calls = <<>>
    /\ PrimIdle
    /\ ScraperIdle

LaunchBrowser ==
    /\ pc = "start"
    /\ browserOpen' = TRUE
    /\ pc' = "new_context"
    /\ UNCHANGED <<exitKind, contextOpen, data, batch_size, usernames, idx,
                   log, followed_set, passTodo, uname, passes, calls>>
    /\ UNCHANGED <<primVars, scrVars>>

(* the state file is absent, loads, or fails to load (handled, line 162) *)
NewContext ==
    /\ pc = "new_context"
    /\ \E state \in StateFileOutcomes :
          IF state = "load_failed"
          THEN /\ pc' = "state_load_failed"
               /\ UNCHANGED contextOpen
          ELSE /\ pc' = "check_login"
               /\ contextOpen' = TRUE
    /\ UNCHANGED <<exitKind, browserOpen, data, batch_size, usernames, idx,
                   log, followed_set, passTodo, uname, passes, calls>>
    /\ UNCHANGED <<primVars, scrVars>>

FreshContextFallback ==
    /\ pc = "state_load_failed"
    /\ contextOpen' = TRUE
    /\ pc' = "check_login"
    /\ UNCHANGED <<exitKind, browserOpen, data, batch_size, usernames, idx,
                   log, followed_set, passTodo, uname, passes, calls>>
    /\ UNCHANGED <<primVars, scrVars>>

NavigateHomeAndCheckLogin ==
    /\ pc = "check_login"
    /\ \E logged_in \in BOOLEAN :
          pc' = IF logged_in THEN "load" ELSE "login_flow"
    /\ UNCHANGED <<exitKind, browserOpen, contextOpen, data, batch_size,
                   usernames, idx, log, followed_set, passTodo, uname,
                   passes, calls>>
    /\ UNCHANGED <<primVars, scrVars>>

LoginFlow ==
    /\ pc = "login_flow"
    /\ \E ok \in BOOLEAN :
          IF ok THEN /\ pc' = "recreate"
                     /\ UNCHANGED <<exitKind, browserOpen, contextOpen>>
          ELSE Propagate("error")
    /\ UNCHANGED <<data, batch_size, usernames, idx, log, followed_set,
                   passTodo, uname, passes, calls>>
    /\ UNCHANGED <<primVars, scrVars>>

(* the context is closed, then made again from the state file; the call   *)
(* at line 175 has no handler                                             *)
RecreateContext ==
    /\ pc = "recreate"
    /\ \E state \in StateFileOutcomes \ {"absent"} :
          IF state = "loaded" THEN /\ pc' = "recheck"
                         /\ contextOpen' = TRUE
                         /\ UNCHANGED <<exitKind, browserOpen>>
          ELSE /\ pc' = "terminated"
               /\ exitKind' = "error"
               /\ contextOpen' = FALSE
               /\ UNCHANGED browserOpen
    /\ UNCHANGED <<data, batch_size, usernames, idx, log, followed_set,
                   passTodo, uname, passes, calls>>
    /\ UNCHANGED <<primVars, scrVars>>

RecheckLogin ==
    /\ pc = "recheck"
    /\ pc' = "load"
    /\ UNCHANGED <<exitKind, browserOpen, contextOpen, data, batch_size,
                   usernames, idx, log, followed_set, passTodo, uname,
                   passes, calls>>
    /\ UNCHANGED <<primVars, scrVars>>

LoadFollowerList ==
    /\ pc = "load"
    /\ LET r == LoadList(data)
       IN IF r.status = "ok"
          THEN /\ usernames' = r.usernames
               /\ idx' = 1
               /\ pc' = "follow"
               /\ UNCHANGED <<exitKind, browserOpen, contextOpen>>
          ELSE /\ CloseAndReturn(r.status)
               /\ UNCHANGED <<usernames, idx>>
    /\ UNCHANGED <<data, batch_size, log, followed_set, passTodo, uname,
                   passes, calls>>
    /\ UNCHANGED <<primVars, scrVars>>

FollowStep ==
    /\ pc = "follow"
    /\ ~LoopDone(idx, usernames)
    /\ \E env \in FollowEnv :
          LET u == usernames[idx]
              r == follow_profile(env)
          IN /\ calls' = Append(calls, Call("follow", u, r))
             /\ IF r = "raise"
                THEN /\ Propagate("error")
                     /\ UNCHANGED log
                ELSE /\ log' = log_action(log,
                              FollowAttemptEntry(u, r = "true", idx,
                                                 Len(usernames)))
                     /\ pc' = "follow_sleep"
                     /\ UNCHANGED <<exitKind, browserOpen, contextOpen>>
    /\ UNCHANGED <<data, batch_size, usernames, idx, followed_set, passTodo,
                   uname, passes>>
    /\ UNCHANGED <<primVars, scrVars>>

FollowSleep ==
    /\ pc = "follow_sleep"
    /\ IF batch_size = 0
       THEN /\ Propagate("error")
            /\ UNCHANGED idx
       ELSE IF idx % batch_size = 0
            THEN /\ pc' = "batch_pause"
                 /\ UNCHANGED <<idx, exitKind, browserOpen, contextOpen>>
            ELSE /\ pc' = "follow"
                 /\ idx' = idx + 1
                 /\ UNCHANGED <<exitKind, browserOpen, contextOpen>>
    /\ UNCHANGED <<data, batch_size, usernames, log, followed_set, passTodo,
                   uname, passes, calls>>
    /\ UNCHANGED <<primVars, scrVars>>

BatchPause ==
    /\ pc = "batch_pause"
    /\ pc' = "follow"
    /\ idx' = idx + 1
    /\ UNCHANGED <<exitKind, browserOpen, contextOpen, data, batch_size,
                   usernames, log, followed_set, passTodo, uname, passes,
                   calls>>
    /\ UNCHANGED <<primVars, scrVars>>

EnterMonitoring ==
    /\ pc = "follow"
    /\ LoopDone(idx, usernames)
    /\ followed_set' = InitialFollowedSet(usernames)
    /\ pc' = "mon_top"
    /\ UNCHANGED <<exitKind, browserOpen, contextOpen, data, batch_size,
                   usernames, idx, log, passTodo, uname, passes, calls>>
    /\ UNCHANGED <<primVars, scrVars>>

MonitoringDone ==
    /\ pc = "mon_top"
    /\ NoneLeft(followed_set)
    /\ CloseAndReturn("done")
    /\ UNCHANGED <<data, batch_size, usernames, idx, log, followed_set,
                   passTodo, uname, passes, calls>>
    /\ UNCHANGED <<primVars, scrVars>>

StartPass ==
    /\ pc = "mon_top"
    /\ ~NoneLeft(followed_set)
    /\ passes' = passes + 1
    /\ passTodo' = PassSnapshot(followed_set)
    /\ pc' = "mon_check"
    /\ UNCHANGED <<exitKind, browserOpen, contextOpen, data, batch_size,
                   usernames, idx, log, followed_set, uname, calls>>
    /\ UNCHANGED <<primVars, scrVars>>

MonCheck ==
    /\ pc = "mon_check"
    /\ Len(SelectSeq(calls, LAMBDA c : c.op = "check")) < MaxChecks
    /\ \E u \in passTodo : \E env \in CheckEnv :
          LET r == is_user_following_me(env)
          IN /\ calls' = Append(calls, Call("check", u, r))
             /\ passTodo' = passTodo \ {u}
             /\ IF ShouldUnfollow(r)
                THEN /\ pc' = "mon_unfollow"
                     /\ uname' = u
                     /\ UNCHANGED log
                ELSE /\ pc' = "mon_sleep"
                     /\ uname' = NoUser
                     /\ log' = log_action(log,
                                  IF r = "false" THEN CheckFollowbackEntry(u)
                                  ELSE ErrorEntry(u))
    /\ UNCHANGED <<exitKind, browserOpen, contextOpen, data, batch_size,
                   usernames, idx, followed_set, passes>>
    /\ UNCHANGED <<primVars, scrVars>>

MonUnfollow ==
    /\ pc = "mon_unfollow"
    /\ \E env \in UnfollowEnv :
          LET r == unfollow_profile(env)
          IN /\ calls' = Append(calls, Call("unfollow", uname, r))
             /\ IF r = "raise"
                THEN /\ log' = log_action(log, ErrorEntry(uname))
                     /\ UNCHANGED followed_set
                ELSE /\ log' = log_action(log, UnfollowEntry(uname, r = "true"))
                     /\ followed_set' = AfterUnfollow(followed_set, uname,
                                                      r = "true")
    /\ uname' = NoUser
    /\ pc' = "mon_sleep"
    /\ UNCHANGED <<exitKind, browserOpen, contextOpen, data, batch_size,
                   usernames, idx, passTodo, passes>>
    /\ UNCHANGED <<primVars, scrVars>>

MonSleep ==
    /\ pc = "mon_sleep"
    /\ pc' = IF passTodo = {} THEN "pass_sleep" ELSE "mon_check"
    /\ UNCHANGED <<exitKind, browserOpen, contextOpen, data, batch_size,
                   usernames, idx, log, followed_set, passTodo, uname,
                   passes, calls>>
    /\ UNCHANGED <<primVars, scrVars>>

PassSleep ==
    /\ pc = "pass_sleep"
    /\ pc' = "mon_top"
    /\ UNCHANGED <<exitKind, browserOpen, contextOpen, data, batch_size,
                   usernames, idx, log, followed_set, passTodo, uname,
                   passes, calls>>
    /\ UNCHANGED <<primVars, scrVars>>

(* an interrupt is delivered at an await; at "follow", "mon_check" and    *)
(* "mon_unfollow" the await is inside the primitive, which was invoked    *)
InterruptBeforeMonitoring ==
    /\ pc \in SetupPcs \cup FollowPcs
    /\ pc = "follow" => ~LoopDone(idx, usernames)
    /\ calls' = IF pc = "follow"
                THEN Append(calls, Call("follow", usernames[idx],
                                        "interrupted"))
                ELSE calls
    /\ Propagate("aborted")
    /\ UNCHANGED <<data, batch_size, usernames, idx, log, followed_set,
                   passTodo, uname, passes>>
    /\ UNCHANGED <<primVars, scrVars>>

InterruptMonitoring ==
    /\ pc \in MonPcs \ {"mon_top"}
    /\ \/ /\ pc = "mon_check"
          /\ \E u \in passTodo :
                calls' = Append(calls, Call("check", u, "interrupted"))
       \/ /\ pc = "mon_unfollow"
          /\ calls' = Append(calls, Call("unfollow", uname, "interrupted"))
       \/ /\ pc \in {"mon_sleep", "pass_sleep"}
          /\ UNCHANGED calls
    /\ CloseAndReturn("interrupted")
    /\ UNCHANGED <<data, batch_size, usernames, idx, log, followed_set,
                   passTodo, uname, passes>>
    /\ UNCHANGED <<primVars, scrVars>>

Next ==
    \/ LaunchBrowser
    \/ NewContext
    \/ FreshContextFallback
    \/ NavigateHomeAndCheckLogin
    \/ LoginFlow
    \/ RecreateContext
    \/ RecheckLogin
    \/ LoadFollowerList
    \/ FollowStep
    \/ FollowSleep
    \/ BatchPause
    \/ EnterMonitoring
    \/ MonitoringDone
    \/ StartPass
    \/ MonCheck
    \/ MonUnfollow
    \/ MonSleep
    \/ PassSleep
    \/ InterruptBeforeMonitoring
    \/ InterruptMonitoring

Spec == Init /\ [][Next]_vars

(* the sleeps of the monitoring loop end and the loop test is then run *)
FairSpec ==
    /\ Spec
    /\ WF_vars(MonSleep)
    /\ WF_vars(PassSleep)
    /\ WF_vars(MonitoringDone)

(* list loader alone: the input is drawn from LoaderData *)
LoaderInit ==
    /\ pc = "load"
    /\ exitKind = "none"
    /\ browserOpen = TRUE
    /\ contextOpen = TRUE
    /\ IsLoaderInput(data)
    /\ batch_size = 1
    /\ usernames = <<>>
    /\ idx = 0
    /\ log = <<>>
    /\ followed_set = {}
    /\ passTodo = {}
    /\ uname = NoUser
    /\ passes = 0
    /\ calls = <<>>
    /\ PrimIdle
    /\ ScraperIdle

LoaderNext == LoadFollowerList

LoaderSpec == LoaderInit /\ [][LoaderNext]_vars

(* ------------- one call of a primitive, for every page behaviour -------- *)
PrimInit ==
    /\ ControllerIdle
    /\ ScraperIdle
    /\ result = "pending"
    /\ \/ prim = "follow" /\ page \in FollowEnv
       \/ prim = "check" /\ page \in CheckEnv
       \/ prim = "unfollow" /\ page \in UnfollowEnv

CallFollow ==
    /\ prim = "follow"
    /\ result = "pending"
    /\ result' = follow_profile(page)
    /\ UNCHANGED <<prim, page, ctlVars, scrVars>>

CallCheck ==
    /\ prim = "check"
    /\ result = "pending"
    /\ result' = is_user_following_me(page)
    /\ UNCHANGED <<prim, page, ctlVars, scrVars>>

CallUnfollow ==
    /\ prim = "unfollow"
    /\ result = "pending"
    /\ result' = unfollow_profile(page)
    /\ UNCHANGED <<prim, page, ctlVars, scrVars>>

PrimNext == CallFollow \/ CallCheck \/ CallUnfollow

PrimSpec == PrimInit /\ [][PrimNext]_vars

(* ----------------------- the follower scraper -------------------------- *)
ScrollAttempts == 1000

UnchangedLimit == 6

Users == 1..MaxUsers

(* the rows of one extraction, in the order of the dialog; users that are *)
(* already collected are skipped (lines 215-225)                          *)
RECURSIVE AppendNew(_, _, _)
AppendNew(fs, found, k) ==
    IF k > MaxUsers THEN fs
    ELSE IF k \in found /\ k \notin Range(fs)
         THEN AppendNew(Append(fs, k), found, k + 1)
         ELSE AppendNew(fs, found, k + 1)

ScraperInit ==
    /\ ControllerIdle
    /\ PrimIdle
    /\ spc = "open"
    /\ max_followers \in 1..MaxLimit
    /\ followers = <<>>
    /\ follower_set = {}
    /\ prev_count = -1
    /\ unchanged = 0
    /\ attempt = 0

(* profile, followers link and dialog: any failure returns the empty list *)
OpenFollowersDialog ==
    /\ spc = "open"
    /\ \E opened \in BOOLEAN : spc' = IF opened THEN "loop" ELSE "returned"
    /\ UNCHANGED <<max_followers, followers, follower_set, prev_count,
                   unchanged, attempt, ctlVars, primVars>>

LimitReached(fs, limit) == Len(fs) >= limit

(* one turn of the loop: extraction (a failed one finds nothing), the two *)
(* stop tests, scroll and sleep; the loop also ends when range(1000) is   *)
(* used up                                                                *)
ScrapeAttempt ==
    /\ spc = "loop"
    /\ \E found \in SUBSET Users :
          LET fs == AppendNew(followers, found, 1)
          IN /\ followers' = fs
             /\ follower_set' = Range(fs)
             /\ IF LimitReached(fs, max_followers)
                THEN /\ spc' = "returned"
                     /\ UNCHANGED <<prev_count, unchanged, attempt>>
                ELSE IF Len(fs) = prev_count /\ unchanged + 1 >= UnchangedLimit
                THEN /\ spc' = "returned"
                     /\ unchanged' = unchanged + 1
                     /\ UNCHANGED <<prev_count, attempt>>
                ELSE /\ unchanged' = IF Len(fs) = prev_count
                                     THEN unchanged + 1 ELSE 0
                     /\ prev_count' = Len(fs)
                     /\ attempt' = attempt + 1
                     /\ spc' = IF attempt + 1 >= ScrollAttempts
                               THEN "returned" ELSE "loop"
    /\ UNCHANGED <<max_followers, ctlVars, primVars>>

ScraperNext == OpenFollowersDialog \/ ScrapeAttempt

ScraperSpec == ScraperInit /\ [][ScraperNext]_vars

(* ======================= properties: controller ======================== *)
CallsOf(op) == SelectSeq(calls, LAMBDA c : c.op = op)

LogOf(action) == SelectSeq(log, LAMBDA e : e.action = action)

FollowCalls == CallsOf("follow")

FollowAttempts == LogOf("follow_attempt")

(* the controller has left the follow pass by exhausting the list *)
FollowPhaseEnded ==
    pc \in MonPcs \/ (pc = "terminated" /\ exitKind \in {"done", "interrupted"})

UnfollowedTrueCount(u) ==
    Cardinality({i \in 1..Len(log) :
                    /\ log[i].action = "unfollow_on_followback"
                    /\ log[i].username = u
                    /\ log[i].unfollowed})

(* C1: in FOLLOWING_PHASE follow is invoked once per Target List entry, in  *)
(* list order, whatever each call returns; when the phase ends there is one *)
(* follow_attempt log entry per entry of the Target List.                   *)
C1_FollowOncePerEntry ==
    /\ Len(FollowCalls) <= Len(usernames)
    /\ \A i \in 1..Len(FollowCalls) : FollowCalls[i].user = usernames[i]
    /\ FollowPhaseEnded =>
          /\ Len(FollowCalls) = Len(usernames)
          /\ Len(FollowAttempts) = Len(usernames)
          /\ \A i \in 1..Len(usernames) :
                /\ FollowAttempts[i].username = usernames[i]
                /\ FollowAttempts[i].index = i
                /\ FollowAttempts[i].performed = (FollowCalls[i].result = "true")

C1_Witness ==
    /\ pc = "mon_top"
    /\ Len(usernames) = 2
    /\ FollowCalls[1].result = "false"
    /\ FollowCalls[2].result = "true"

(* C2: in MONITORING_PHASE every step leaves the Working Set unchanged or   *)
(* removes elements from it; a removed username never comes back.           *)
C2_WorkingSetShrinks ==
    [][(pc \in MonPcs) => (followed_set' \subseteq followed_set)]_vars

C2_Witness ==
    /\ pc = "mon_check"
    /\ passes = 2
    /\ followed_set # {}
    /\ followed_set # Range(usernames)

(* C3: once unfollow returned true for X (after a check that returned       *)
(* true), X is out of the Working Set and the log holds exactly one         *)
(* unfollow_on_followback entry with unfollowed true for X; no user ever    *)
(* has more than one such entry.                                            *)
C3_RemovedAndLoggedOnce ==
    /\ \A u \in Range(usernames) : UnfollowedTrueCount(u) <= 1
    /\ \A i \in 1..Len(calls) :
          (calls[i].op = "unfollow" /\ calls[i].result = "true") =>
             /\ calls[i].user \notin followed_set
             /\ UnfollowedTrueCount(calls[i].user) = 1

C3_Witness ==
    /\ pc = "terminated"
    /\ exitKind = "done"
    /\ Len(usernames) = 2
    /\ passes = 2
    /\ \A u \in Range(usernames) : UnfollowedTrueCount(u) = 1

OnlyFalseChecks(u) ==
    \A i \in 1..Len(calls) :
       (calls[i].op = "check" /\ calls[i].user = u) => calls[i].result = "false"

(* C4: a user Y whose every follow-back check returned false is in the      *)
(* Working Set in every state of MONITORING_PHASE and after it, the         *)
(* controller has not finished through the empty-set exit, and every        *)
(* monitoring-phase log entry for Y is a check_followback entry.            *)
C4_NeverFollowsBackStays ==
    FollowPhaseEnded =>
       \A y \in Range(usernames) :
          OnlyFalseChecks(y) =>
             /\ y \in followed_set
             /\ exitKind # "done"
             /\ \A i \in 1..Len(log) :
                   (log[i].username = y /\ log[i].action # "follow_attempt")
                      => log[i].action = "check_followback"

C4_Witness ==
    /\ pc = "pass_sleep"
    /\ passes = 2
    /\ \E y \in Range(usernames) :
          /\ OnlyFalseChecks(y)
          /\ Len(SelectSeq(calls, LAMBDA c : c.op = "check" /\ c.user = y)) = 2
          /\ followed_set = {y}
          /\ Len(usernames) = 2

RaisedInMonitoring ==
    /\ Len(calls') = Len(calls) + 1
    /\ calls'[Len(calls')].op \in {"check", "unfollow"}
    /\ calls'[Len(calls')].result = "raise"

CheckedInPass(p) ==
    {calls[i].user : i \in {j \in 1..Len(calls) :
                               calls[j].op = "check" /\ calls[j].pass = p}}

RemovedInPass(p) ==
    {calls[i].user : i \in {j \in 1..Len(calls) :
                               /\ calls[j].op = "unfollow"
                               /\ calls[j].pass = p
                               /\ calls[j].result = "true"}}

RaisedInPass(p) ==
    \E i \in 1..Len(calls) : calls[i].pass = p /\ calls[i].result = "raise"

(* C5: a step of MONITORING_PHASE in which the check or the unfollow of Z   *)
(* raises appends an error entry with Z's username, leaves the Working Set  *)
(* unchanged and goes on with the pass; a pass that runs to its end has     *)
(* checked every user that was in the Working Set when it started.          *)
C5_ErrorLoggedPassContinues ==
    /\ [][RaisedInMonitoring =>
             /\ log' = Append(log, log'[Len(log')])
             /\ log'[Len(log')].action = "error"
             /\ log'[Len(log')].username = calls'[Len(calls')].user
             /\ followed_set' = followed_set
             /\ pc' = "mon_sleep"]_vars
    /\ [](pc = "pass_sleep" =>
             CheckedInPass(passes) = followed_set \cup RemovedInPass(passes))

C5_Witness ==
    /\ pc = "pass_sleep"
    /\ Len(usernames) = 2
    /\ RaisedInPass(passes)
    /\ calls[Len(calls)].result # "raise"
    /\ calls[Len(calls)].pass = passes

ListErrorExits == {"not_found", "parse_error", "not_array", "empty",
                   "no_usernames"}

PastLoading == idx >= 1

(* C6: every terminated state reached through a list-loading error, normal  *)
(* completion, or an interrupt or unhandled error of FOLLOWING_PHASE or     *)
(* MONITORING_PHASE has the browsing context and the browser closed.        *)
C6_SessionClosedOnExit ==
    (pc = "terminated" /\ (exitKind \in ListErrorExits \/ PastLoading))
       => (~contextOpen /\ ~browserOpen)

SessionReleased == ~contextOpen /\ ~browserOpen

(* C13: once the Working Set is empty in MONITORING_PHASE the controller    *)
(* makes no further checkFollowsBack or unfollow call and eventually        *)
(* terminates with the session released; it terminates through the         *)
(* empty-set exit only with an empty Working Set.                           *)
C13_DoneWhenEmpty ==
    /\ [][(pc \in MonPcs /\ followed_set = {}) => calls' = calls]_vars
    /\ [](exitKind = "done" => (followed_set = {} /\ SessionReleased))
    /\ (pc \in MonPcs /\ followed_set = {})
          ~> (pc = "terminated" /\ SessionReleased)

C13_Witness ==
    /\ pc = "terminated"
    /\ exitKind = "done"
    /\ Len(usernames) = 2
    /\ calls[Len(calls)].op = "unfollow"
    /\ calls[Len(calls)].result = "true"
    /\ \E i \in 1..Len(calls) :
          calls[i].op = "unfollow" /\ calls[i].result = "false"

NeverUnfollowed(u) ==
    \A i \in 1..Len(calls) :
       (calls[i].op = "unfollow" /\ calls[i].user = u)
          => calls[i].result # "true"

(* C14: in every state of MONITORING_PHASE and in every state an interrupt  *)
(* or the empty-set exit leads to from it, a username of the Target List is *)
(* out of the Working Set exactly when the log holds an                     *)
(* unfollow_on_followback entry with unfollowed true for it; a user whose   *)
(* unfollow calls all returned false (or raised) is still in the set.       *)
C14_WorkingSetMatchesLog ==
    FollowPhaseEnded =>
       \A u \in Range(usernames) :
          /\ (u \notin followed_set) <=> (UnfollowedTrueCount(u) >= 1)
          /\ NeverUnfollowed(u) => u \in followed_set

C14_Witness ==
    /\ pc = "terminated"
    /\ exitKind = "interrupted"
    /\ Cardinality(followed_set) = 1
    /\ Len(usernames) = 2
    /\ \E i \in 1..Len(log) :
          /\ log[i].action = "unfollow_on_followback"
          /\ ~log[i].unfollowed
          /\ log[i].username \in followed_set
    /\ \E i \in 1..Len(log) :
          /\ log[i].action = "unfollow_on_followback"
          /\ log[i].unfollowed

(* C15: when MONITORING_PHASE starts the Working Set is the set of all the  *)
(* usernames of the Target List, whatever the follow calls returned.        *)
C15_AllTargetsMonitored ==
    (pc = "mon_top" /\ passes = 0) => followed_set = Range(usernames)

C15_Witness ==
    /\ pc = "mon_top"
    /\ passes = 0
    /\ Len(usernames) = 2
    /\ FollowCalls[1].result = "false"
    /\ FollowCalls[2].result = "false"
    /\ Cardinality(followed_set) = 2

(* C16: a step that loads the persisted session state ends the controller   *)
(* only when the user aborts: after a failed load at startup the controller *)
(* goes on with a fresh context, and the re-creation of the context after   *)
(* the interactive login never ends the controller with an error.           *)
C16_LoadFailureNeverAborts ==
    [][/\ pc = "state_load_failed" =>
             (pc' = "check_login" \/ exitKind' = "aborted")
       /\ (pc = "recreate" /\ pc' = "terminated") => exitKind' = "aborted"]_vars

(* C18: every unfollow call comes directly after a checkFollowsBack call    *)
(* for the same user in the same pass that returned true; every check that  *)
(* returned true is directly followed by the unfollow call for that user    *)
(* and by no second one; no unfollow call is made before MONITORING_PHASE.  *)
C18_UnfollowOnlyAfterTrueCheck ==
    /\ \A j \in 1..Len(calls) :
          calls[j].op = "unfollow" =>
             /\ j > 1
             /\ calls[j - 1].op = "check"
             /\ calls[j - 1].result = "true"
             /\ calls[j - 1].user = calls[j].user
             /\ calls[j - 1].pass = calls[j].pass
    /\ \A i \in 1..Len(calls) :
          (calls[i].op = "check" /\ calls[i].result = "true") =>
             IF i = Len(calls)
             THEN pc = "mon_unfollow" /\ uname = calls[i].user
             ELSE /\ calls[i + 1].op = "unfollow"
                  /\ calls[i + 1].user = calls[i].user
                  /\ i + 2 <= Len(calls) => calls[i + 2].op # "unfollow"
    /\ ~FollowPhaseEnded => CallsOf("unfollow") = <<>>

C18_Witness ==
    /\ pc = "mon_sleep"
    /\ passes = 2
    /\ calls[Len(calls)].op = "unfollow"
    /\ \E i \in 1..Len(calls) :
          /\ calls[i].op = "check"
          /\ calls[i].user = calls[Len(calls)].user
          /\ calls[i].result = "false"

(* ======================= properties: primitives ======================== *)
Returned == prim # "none" /\ result # "pending"

(* the profile did not load, or the lookup of the control failed *)
PageFailed ==
    \/ page.goto = "error"
    \/ page.header \in {"timeout", "error"}
    \/ prim \in {"follow", "unfollow"} /\ page.button = "error"
    \/ prim = "check" /\ page.indicator = "error"

(* C11: none of follow, checkFollowsBack and unfollow raises: each call     *)
(* returns true or false, and returns false for every failure of the        *)
(* navigation, of the wait for the profile header (a timeout or any other   *)
(* error) and of the control lookup.                                        *)
C11_PrimitivesNeverRaise ==
    Returned =>
       /\ result \in {"true", "false"}
       /\ PageFailed => result = "false"

(* C12: unfollow returns true whenever it activated a visible "Following"   *)
(* or "Requested" control, whatever the confirmation control then does; it  *)
(* returns false only when the profile did not load or no such control was  *)
(* found.                                                                   *)
C12_ActivatedMeansTrue ==
    (Returned /\ prim = "unfollow") =>
       /\ unfollow_activated(page) => result = "true"
       /\ result = "false" => ~unfollow_activated(page)

(* ======================= properties: scraper =========================== *)
(* C17: scrape_followers returns a list of at most max_followers entries,   *)
(* whatever the extractions of the followers dialog find.                   *)
C17_AtMostMax ==
    spc = "returned" => Len(followers) <= max_followers

(* ======================= properties: list loader ======================= *)
Loaded == pc = "follow"

UsableItems ==
    {i \in 1..Len(data.items) :
        data.items[i].kind \in {"str", "dict"} /\ data.items[i].field = "str"}

(* s without its leading and trailing whitespace, by positions *)
NonWsPositions(s) == {k \in 1..Len(s) : s[k] \notin Whitespace}

Min(S) == CHOOSE x \in S : \A y \in S : x <= y

Max(S) == CHOOSE x \in S : \A y \in S : x >= y

Trimmed(s) ==
    IF NonWsPositions(s) = {} THEN <<>>
    ELSE SubSeq(s, Min(NonWsPositions(s)), Max(NonWsPositions(s)))

(* the number of "@" that t starts with *)
LeadingAts(t) ==
    CHOOSE k \in 0..Len(t) :
       /\ \A i \in 1..k : t[i] = "@"
       /\ k < Len(t) => t[k + 1] # "@"

(* s trimmed, without all of its leading "@" *)
NormalizedAll(s) ==
    SubSeq(Trimmed(s), LeadingAts(Trimmed(s)) + 1, Len(Trimmed(s)))

(* s trimmed, without one leading "@" when it has one *)
NormalizedOnce(s) ==
    SubSeq(Trimmed(s), (IF LeadingAts(Trimmed(s)) > 0 THEN 2 ELSE 1),
           Len(Trimmed(s)))

FirstIndexAll(u) ==
    CHOOSE i \in UsableItems :
       /\ NormalizedAll(data.items[i].val) = u
       /\ \A j \in UsableItems :
             NormalizedAll(data.items[j].val) = u => i <= j

(* C7: the loaded list has no duplicate and no empty string, and holds the  *)
(* usernames of the input in order of first occurrence.                     *)
C7_NoDupNoEmptyFirstSeen ==
    Loaded =>
       /\ \A i, j \in 1..Len(usernames) :
             usernames[i] = usernames[j] => i = j
       /\ \A i \in 1..Len(usernames) : usernames[i] # <<>>
       /\ \A i \in 1..Len(usernames) :
             \E k \in UsableItems : NormalizedAll(data.items[k].val) = usernames[i]
       /\ \A i, j \in 1..Len(usernames) :
             i < j => FirstIndexAll(usernames[i]) < FirstIndexAll(usernames[j])

AsStrings(us) == ListData([i \in 1..Len(us) |-> StrItem(us[i])])

NoEmptyLoaded == \A i \in 1..Len(usernames) : usernames[i] # <<>>

(* C8: loading the loaded list of an all-strings input again gives the      *)
(* same list (stated for a loaded list that is non-empty and holds no empty *)
(* string).                                                                 *)
C8_LoaderIdempotent ==
    (Loaded /\ AllKind(data.items, "str") /\ usernames # <<>>
        /\ NoEmptyLoaded) =>
       LoadList(AsStrings(usernames)) = LoadResult("ok", usernames)

(* C9 as written: every loaded username is an input item without its        *)
(* surrounding whitespace and without exactly one leading "@", and every    *)
(* non-empty such value is loaded, in all three branches (stated for a      *)
(* loaded list that holds no empty string).                                 *)
C9_StripsOneAt ==
    (Loaded /\ NoEmptyLoaded) =>
       /\ \A u \in Range(usernames) :
             \E k \in UsableItems : NormalizedOnce(data.items[k].val) = u
       /\ \A k \in UsableItems :
             NormalizedOnce(data.items[k].val) # <<>>
                => NormalizedOnce(data.items[k].val) \in Range(usernames)

(* C9 amended: every loaded username is an input item without its           *)
(* surrounding whitespace and then without all of its leading "@", and      *)
(* every non-empty such value is loaded, in all three branches.             *)
C9_StripsAllAt ==
    Loaded =>
       /\ \A u \in Range(usernames) :
             \E k \in UsableItems : NormalizedAll(data.items[k].val) = u
       /\ \A k \in UsableItems :
             NormalizedAll(data.items[k].val) # <<>>
                => NormalizedAll(data.items[k].val) \in Range(usernames)

C9_Witness ==
    /\ Loaded
    /\ data.items = <<StrItem(<<"@", "@", "a">>), DictItem(<<"a">>)>>
    /\ usernames = << <<"a">> >>

HasUsableUsername ==
    \E k \in UsableItems : NormalizedAll(data.items[k].val) # <<>>

IsListError ==
    \/ data.shape = "nonlist"
    \/ data.shape = "list" /\ Len(data.items) = 0
    \/ data.shape = "list" /\ Len(data.items) > 0
          /\ AllKind(data.items, "dict") /\ ~HasUsableUsername

(* C10: with an input that is not a sequence, is empty, or is a sequence of *)
(* records without a usable username, the controller never invokes a        *)
(* primitive and never appends a log entry, and once it is past list        *)
(* loading it has terminated through the matching list-error exit.          *)
C10_ListErrorsFatal ==
    IsListError =>
       /\ calls = <<>>
       /\ log = <<>>
       /\ pc \in SetupPcs \cup {"load", "terminated"}
       /\ exitKind \in {"none", "aborted", "error",
                        IF data.shape = "nonlist" THEN "not_array"
                        ELSE IF Len(data.items) = 0 THEN "empty"
                        ELSE "no_usernames"}

C10_Witness ==
    /\ pc = "terminated"
    /\ exitKind = "no_usernames"
    /\ data = ListData(<<DictNoKey, DictItem(<<"@">>)>>)
    /\ calls = <<>>
    /\ log = <<>>

====
